---------------------------- MODULE Spec2Model ----------------------------
(***************************************************************************)
(* The persistence layer of the customer-rotation calculator:              *)
(* usePersistentState (debounced localStorage writes, shape-merge on load, *)
(* storage-event synchronisation between browsing contexts), the           *)
(* calculator adapter useCalculatorState and the storageUtils helpers.     *)
(*                                                                         *)
(* Two browsing contexts (tabs) "A" and "B" each hold one container bound  *)
(* to the key 'calculator-values' of the one localStorage area they share. *)
(* A third context "U" calls storageUtils by hand.  A step of the model is *)
(* one JavaScript task: a render, an effect flush, an event handler, a     *)
(* timer callback or the dispatch of one storage event.                    *)
(*                                                                         *)
(* Spec     : container "A" and the context "U"; setItem and removeItem    *)
(*            may throw.                                                   *)
(* SpecTabs : containers "A" and "B" in two tabs; storage calls succeed.   *)
(*                                                                         *)
(* React runs a handler's setState updater and the render that follows     *)
(* before the next task, so each handler is one step.  Every render calls  *)
(* getStorageManager again; the outcome of the probe is fixed per browser  *)
(* (available), its throwaway key is gone when it returns, and only the    *)
(* first render of a container records the probe's calls.                  *)
(***************************************************************************)
EXTENDS Integers, Sequences, FiniteSets, TLC

VARIABLES
  available,     \* does the probe of getStorageManager succeed in this browser
  store,         \* localStorage: key -> stored text, or Absent
  phase,         \* container -> "none" | "rendered" | "mounted" | "unmounted"
  storage,       \* container -> TRUE when its StorageManager is not null
  state,         \* container -> the React state (the Stored Value Record)
  isInitialized, \* container -> isInitializedRef.current
  debounceRef,   \* container -> debounceRef.current (0: undefined)
  timers,        \* container -> the timeouts of its tab that have not fired
  inbox,         \* container -> storage events queued for its window
  last,          \* the step just taken: handler, container, storage calls
  burst,         \* container -> history of the current burst of updates
  sinceReset,    \* container -> reset, and no update of any container since
  export         \* the export button: browser, promise, notices, object URLs

vars == <<available, store, phase, storage, state, isInitialized, debounceRef,
          timers, inbox, last, burst, sinceReset, export>>

-----------------------------------------------------------------------------
(* Bounds *)

\* Timeouts one tab can have outstanding at once (the code keeps at most one).
MaxPending == 2
\* Storage events that can wait in one window's queue.
MaxInbox == 1
\* Characters in a text given to formatCsvValue.
MaxText == 3
\* Sections in a list given to sectionsToCSV.
MaxSections == 2
\* Largest capacity of one customer type in an export record.
MaxCapacity == 2
\* Largest surplus of capacity over the target in an export record.
MaxGap == 5
\* Exports and downloads started in one behaviour.
MaxAttempts == 2

-----------------------------------------------------------------------------
(* Records.  A JavaScript object is a sequence of <<field, value>> pairs in  *)
(* insertion order, which is the order JSON.stringify emits.                *)

Containers == {"A", "B"}

STORAGE_KEY == "calculator-values"
PREFERENCES_KEY == "calculator-preferences"
\* A key of the same origin that does not begin with 'calculator'.
OTHER_KEY == "theme"
Keys == {STORAGE_KEY, PREFERENCES_KEY, OTHER_KEY}

key(c) == STORAGE_KEY
storageType(c) == "localStorage"

\* Two of the eleven numeric fields of CalculatorValues, with App's defaults.
defaultValues == << <<"localCustomers", 100>>, <<"targetDishes", 200>> >>
defaultValue(c) == defaultValues

FieldNames(r) == {r[i][1] : i \in 1..Len(r)}
Has(r, f) == f \in FieldNames(r)
Get(r, f) == LET i == CHOOSE j \in 1..Len(r) : r[j][1] = f IN r[i][2]

\* { ...r, [f]: v }: an own field keeps its place, a new one is appended.
Put(r, f, v) ==
  IF Has(r, f) THEN [i \in 1..Len(r) |-> IF r[i][1] = f THEN <<f, v>> ELSE r[i]]
  ELSE Append(r, <<f, v>>)

\* { ...d, ...s }
RECURSIVE Spread(_, _)
Spread(d, s) ==
  IF s = <<>> THEN d ELSE Spread(Put(d, Head(s)[1], Head(s)[2]), Tail(s))

\* Two objects with the same fields and values, whatever the order.
SameFields(r, s) ==
  /\ FieldNames(r) = FieldNames(s)
  /\ \A f \in FieldNames(r) : Get(r, f) = Get(s, f)

-----------------------------------------------------------------------------
(* Stored text.  getItem answers a text or null (Absent).                   *)

Absent == <<"null">>
Garbage == <<"{invalid json}">>

JSONstringify(v) == <<"json", v>>
Parses(text) == Len(text) = 2 /\ text[1] = "json"
JSONparse(text) == text[2]

-----------------------------------------------------------------------------
(* Inputs *)

\* Objects holding a subset of the default's fields (old stored data).
PartialRecords ==
  {<<>>, << <<"localCustomers", 250>> >>, << <<"targetDishes", 250>> >>,
   << <<"targetDishes", 250>>, <<"localCustomers", 250>> >>}

\* What the key can hold when the first container is constructed.
InitialTexts == {Absent, Garbage} \cup {JSONstringify(s) : s \in PartialRecords}

\* Arguments of setPersistentState.  fn: the producer of updateValue or
\* updateValues, which spreads `updates` over the previous state; otherwise
\* the value given to setValues: the defaults, or the defaults written in
\* another field order.
NewValues ==
  {[fn |-> TRUE, updates |-> << <<f, 250>> >>, value |-> <<>>] :
      f \in {"localCustomers", "targetDishes"}}
    \cup {[fn |-> TRUE, value |-> <<>>,
           updates |-> << <<"targetDishes", 250>>, <<"localCustomers", 250>> >>]}
    \cup {[fn |-> FALSE, updates |-> <<>>, value |-> v] :
            v \in {defaultValues,
                   << <<"targetDishes", 200>>, <<"localCustomers", 100>> >>}}

-----------------------------------------------------------------------------
(* The browser's Storage object and its 'storage' event.                     *)

TEST_KEY == "__storage_test__"

\* One call on the Storage object: op, key, the text given, did it return.
Call(op, k, text, ok) == [op |-> op, key |-> k, text |-> text, ok |-> ok]

\* The windows a change made by context `by` is announced to: every other
\* context's window that holds a document (a container under construction or
\* live).
Windows(by) == {c \in Containers : c # by /\ phase[c] \in {"rendered", "mounted"}}

\* The browser dispatches a 'storage' event only when the entry changes.
Announced(by, old, new) == IF old = new THEN {} ELSE Windows(by)

CanAnnounce(by, old, new) ==
  \A c \in Announced(by, old, new) : Len(inbox[c]) < MaxInbox

Announce(by, k, old, new) ==
  [c \in Containers |->
     IF c \in Announced(by, old, new)
       THEN Append(inbox[c], [key |-> k, newValue |-> new])
       ELSE inbox[c]]

\* storage.setItem(k, text) by context `by`; ok = FALSE: it throws (quota).
SetItem(by, k, text, ok) ==
  IF ok
    THEN /\ CanAnnounce(by, store[k], text)
         /\ store' = [store EXCEPT ![k] = text]
         /\ inbox' = Announce(by, k, store[k], text)
    ELSE UNCHANGED <<store, inbox>>

\* storage.removeItem(k) by context `by`; ok = FALSE: it throws.
RemoveItem(by, k, ok) ==
  IF ok
    THEN /\ CanAnnounce(by, store[k], Absent)
         /\ store' = [store EXCEPT ![k] = Absent]
         /\ inbox' = Announce(by, k, store[k], Absent)
    ELSE UNCHANGED <<store, inbox>>

\* (mutant) a getStorageManager that returns the storage without probing it.
getStorageManagerNoProbe == TRUE

\* getStorageManager: the probe writes and removes a throwaway key; the
\* manager is null when that throws.  (The two probe events carry TEST_KEY,
\* which no listener's key equals; they are not queued.)
getStorageManager == available

ProbeCalls ==
  IF available
    THEN <<Call("setItem", TEST_KEY, <<"test">>, TRUE),
           Call("removeItem", TEST_KEY, Absent, TRUE)>>
    ELSE <<Call("setItem", TEST_KEY, <<"test">>, FALSE)>>

-----------------------------------------------------------------------------
(* usePersistentState *)

Live(c) == phase[c] \in {"rendered", "mounted"}

\* (mutant) the parsed value taken as it is.
MergeNone(dflt, parsed) == parsed

\* The value built from a parsed text: every default of the model is a plain
\* object, so it is { ...defaultValue, ...parsed }.
Merge(dflt, parsed) == Spread(dflt, parsed)

\* The useState initializer: stored value shape-merged over the default.
InitialState(mgr, stored, dflt) ==
  IF ~mgr THEN dflt
  ELSE IF stored # Absent /\ Parses(stored) THEN Merge(dflt, JSONparse(stored))
  ELSE dflt

\* What a reload of the page would construct for c's key right now.
FreshLoad(c) == InitialState(getStorageManager, store[key(c)], defaultValue(c))

\* clearTimeout(id): forget the timeout with that id, if it has not fired.
clearTimeout(ts, id) == {t \in ts : t.id # id}

\* setTimeout returns an id no outstanding timeout has.
FreshId(ts, ref) ==
  CHOOSE i \in 1..(MaxPending + 1) :
    /\ i # ref /\ \A t \in ts : t.id # i
    /\ \A j \in 1..(i - 1) : j = ref \/ \E t \in ts : t.id = j

\* (mutant) saveToStorage that arms a timeout without cancelling the armed one.
saveToStorageNoCancel(c, value) ==
  IF ~storage[c] THEN [timers |-> timers[c], ref |-> debounceRef[c]]
  ELSE LET id == FreshId(timers[c], debounceRef[c])
       IN [timers |-> timers[c] \cup {[id |-> id, value |-> value]}, ref |-> id]

\* saveToStorage(value): cancel the armed timeout, arm a new one.
saveToStorage(c, value) ==
  IF ~storage[c] THEN [timers |-> timers[c], ref |-> debounceRef[c]]
  ELSE LET kept == IF debounceRef[c] # 0
                     THEN clearTimeout(timers[c], debounceRef[c])
                     ELSE timers[c]
           id == FreshId(kept, debounceRef[c])
       IN [timers |-> kept \cup {[id |-> id, value |-> value]}, ref |-> id]

\* (mutant) a producer that spreads the updates over the defaults.
NextStateFromDefault(nv, prev) ==
  IF nv.fn THEN Spread(defaultValues, nv.updates) ELSE nv.value

\* The state an argument of setPersistentState produces from prevState.
NextState(nv, prev) == IF nv.fn THEN Spread(prev, nv.updates) ELSE nv.value

\* History of a burst of updates: the state the latest update produced, whether
\* the burst superseded an update that produced another state, whether a
\* 'storage' event was applied while its timeout was pending, and the texts
\* given to setItem since the burst began.
NoBurst ==
  [open |-> FALSE, upd |-> defaultValues, dropped |-> FALSE, notified |-> FALSE,
   sets |-> <<>>]
\* History since a reset: done holds from a container's reset until the next
\* update of any container, all when that reset was resetAllValues.
NoReset == [done |-> FALSE, all |-> FALSE]

\* (mutant) a first render that normalises the entry it has just loaded.
MountWritingBack(c) ==
  /\ phase[c] \in {"none", "unmounted"}
  /\ phase' = [phase EXCEPT ![c] = "rendered"]
  /\ storage' = [storage EXCEPT ![c] = getStorageManager]
  /\ state' = [state EXCEPT
       ![c] = InitialState(getStorageManager, store[key(c)], defaultValue(c))]
  /\ isInitialized' = [isInitialized EXCEPT ![c] = FALSE]
  /\ debounceRef' = [debounceRef EXCEPT ![c] = 0]
  /\ burst' = [burst EXCEPT ![c] = NoBurst]
  /\ last' = [act |-> "Mount", c |-> c, calls |-> ProbeCalls, ret |-> <<>>, event |-> <<>>, arg |-> <<>>, burst |-> <<>>]
  /\ IF getStorageManager /\ store[key(c)] # Absent
       THEN SetItem(c, key(c),
              JSONstringify(InitialState(getStorageManager, store[key(c)], defaultValue(c))),
              TRUE)
       ELSE UNCHANGED <<store, inbox>>
  /\ UNCHANGED <<export, available, timers, sinceReset>>

\* First render: probe, read the key, build the initial state.
Mount(c) ==
  /\ phase[c] \in {"none", "unmounted"}
  /\ phase' = [phase EXCEPT ![c] = "rendered"]
  /\ storage' = [storage EXCEPT ![c] = getStorageManager]
  /\ state' = [state EXCEPT
       ![c] = InitialState(getStorageManager, store[key(c)], defaultValue(c))]
  /\ isInitialized' = [isInitialized EXCEPT ![c] = FALSE]
  /\ debounceRef' = [debounceRef EXCEPT ![c] = 0]
  /\ burst' = [burst EXCEPT ![c] = NoBurst]
  /\ last' = [act |-> "Mount", c |-> c, calls |-> ProbeCalls, ret |-> <<>>, event |-> <<>>, arg |-> <<>>, burst |-> <<>>]
  /\ UNCHANGED <<export, available, store, timers, inbox, sinceReset>>

\* The effects of the first commit: mark initialized, subscribe.
Effects(c) ==
  /\ phase[c] = "rendered"
  /\ phase' = [phase EXCEPT ![c] = "mounted"]
  /\ isInitialized' = [isInitialized EXCEPT ![c] = TRUE]
  /\ last' = [act |-> "Effects", c |-> c, calls |-> <<>>, ret |-> <<>>, event |-> <<>>, arg |-> <<>>, burst |-> <<>>]
  /\ UNCHANGED <<export, available, store, storage, state, debounceRef, timers, inbox,
                 burst, sinceReset>>

\* (mutant) setPersistentState that saves during the startup phase too.
UpdateSavingAtStartup(c, nv) ==
  /\ Live(c)
  /\ LET nextState == NextState(nv, state[c])
         armed == storage[c]
         saved == saveToStorage(c, nextState)
     IN /\ Cardinality(saved.timers) <= MaxPending
        /\ state' = [state EXCEPT ![c] = nextState]
        /\ timers' = [timers EXCEPT ![c] = saved.timers]
        /\ debounceRef' = [debounceRef EXCEPT ![c] = saved.ref]
        /\ burst' = [burst EXCEPT ![c] =
             IF ~armed THEN @
             ELSE IF timers[c] = {}
                    THEN [open |-> TRUE, upd |-> nextState, dropped |-> FALSE,
                          notified |-> FALSE, sets |-> <<>>]
                    ELSE [open |-> TRUE, upd |-> nextState,
                          dropped |-> @.dropped \/ @.upd # nextState,
                          notified |-> FALSE, sets |-> @.sets]]
        /\ sinceReset' = [d \in Containers |-> NoReset]
        /\ last' = [act |-> "Update", c |-> c, calls |-> <<>>, ret |-> <<>>,
                    event |-> <<>>, arg |-> <<nv>>, burst |-> <<>>]
  /\ UNCHANGED <<export, available, store, phase, storage, isInitialized, inbox>>

\* setPersistentState(newValue)
Update(c, nv) ==
  /\ Live(c)
  /\ LET nextState == NextState(nv, state[c])
         armed == isInitialized[c] /\ storage[c]
         saved == IF isInitialized[c] THEN saveToStorage(c, nextState)
                  ELSE [timers |-> timers[c], ref |-> debounceRef[c]]
     IN /\ Cardinality(saved.timers) <= MaxPending
        /\ state' = [state EXCEPT ![c] = nextState]
        /\ timers' = [timers EXCEPT ![c] = saved.timers]
        /\ debounceRef' = [debounceRef EXCEPT ![c] = saved.ref]
        /\ burst' = [burst EXCEPT ![c] =
             IF ~armed THEN @
             ELSE IF timers[c] = {}
                    THEN [open |-> TRUE, upd |-> nextState, dropped |-> FALSE,
                          notified |-> FALSE, sets |-> <<>>]
                    ELSE [open |-> TRUE, upd |-> nextState,
                          dropped |-> @.dropped \/ @.upd # nextState,
                          notified |-> FALSE, sets |-> @.sets]]
        /\ sinceReset' = [d \in Containers |-> NoReset]
        /\ last' = [act |-> "Update", c |-> c, calls |-> <<>>, ret |-> <<>>,
                    event |-> <<>>, arg |-> <<nv>>, burst |-> <<>>]
  /\ UNCHANGED <<export, available, store, phase, storage, isInitialized, inbox>>

\* (mutant) a timeout callback whose failing setItem disables the container's
\* storage manager.
FireTimerDisabling(c, t, ok) ==
  /\ t \in timers[c]
  /\ LET text == JSONstringify(t.value)
         hist == [burst[c] EXCEPT !.sets = Append(@, text)]
     IN /\ SetItem(c, key(c), text, ok)
        /\ burst' = [burst EXCEPT ![c] = IF timers[c] = {t} THEN NoBurst ELSE hist]
        /\ last' = [act |-> "FireTimer", c |-> c,
                    calls |-> <<Call("setItem", key(c), text, ok)>>, ret |-> <<>>,
                    event |-> <<>>, arg |-> <<>>, burst |-> <<hist>>]
  /\ timers' = [timers EXCEPT ![c] = @ \ {t}]
  /\ storage' = [storage EXCEPT ![c] = ok]
  /\ UNCHANGED <<export, available, phase, state, isInitialized, debounceRef, sinceReset>>

\* The timeout callback of saveToStorage: setItem inside try/catch.  The
\* burst's history goes into `last` when its last timeout has fired.
FireTimer(c, t, ok) ==
  /\ t \in timers[c]
  /\ LET text == JSONstringify(t.value)
         hist == [burst[c] EXCEPT !.sets = Append(@, text)]
     IN /\ SetItem(c, key(c), text, ok)
        /\ burst' = [burst EXCEPT ![c] = IF timers[c] = {t} THEN NoBurst ELSE hist]
        /\ last' = [act |-> "FireTimer", c |-> c,
                    calls |-> <<Call("setItem", key(c), text, ok)>>, ret |-> <<>>,
                    event |-> <<>>, arg |-> <<>>, burst |-> <<hist>>]
  /\ timers' = [timers EXCEPT ![c] = @ \ {t}]
  /\ UNCHANGED <<export, available, phase, storage, state, isInitialized, debounceRef,
                 sinceReset>>

\* (mutant) clearStoredValue that leaves the armed timeout alone.
clearStoredValueTimersNoCancel(c) == timers[c]

\* The timers clearStoredValue leaves.
clearStoredValueTimers(c) ==
  IF ~storage[c] THEN timers[c]
  ELSE IF debounceRef[c] # 0 THEN clearTimeout(timers[c], debounceRef[c])
  ELSE timers[c]

\* clearStoredValue(): cancel the timeout, removeItem inside try/catch.
\* `act` names the handler that calls it.
clearStoredValue(c, ok, act) ==
  /\ storage[c] \/ ok
  /\ timers' = [timers EXCEPT ![c] = clearStoredValueTimers(c)]
  /\ burst' = [burst EXCEPT ![c] = IF storage[c] THEN NoBurst ELSE @]
  /\ IF storage[c]
       THEN RemoveItem(c, key(c), ok)
       ELSE UNCHANGED <<store, inbox>>
  /\ last' = [act |-> act, c |-> c,
              calls |-> IF storage[c]
                          THEN <<Call("removeItem", key(c), Absent, ok)>>
                          ELSE <<>>,
              ret |-> <<>>, event |-> <<>>, arg |-> <<>>, burst |-> <<burst[c]>>]

\* clear(): the fourth element of the hook's result.
Clear(c, ok) ==
  /\ Live(c)
  /\ clearStoredValue(c, ok, "clear")
  /\ UNCHANGED <<export, available, phase, storage, state, isInitialized, debounceRef,
                 sinceReset>>

\* resetToDefault(): clearStoredValue(), then setState(defaultValue).
resetToDefault(c, ok) ==
  /\ Live(c)
  /\ clearStoredValue(c, ok, "resetToDefault")
  /\ state' = [state EXCEPT ![c] = defaultValue(c)]
  /\ sinceReset' = [sinceReset EXCEPT ![c] = [done |-> TRUE, all |-> FALSE]]
  /\ UNCHANGED <<export, available, phase, storage, isInitialized, debounceRef>>

\* Is c's 'storage' listener attached (third effect, lines 220-239)?
Listening(c) ==
  phase[c] = "mounted" /\ storage[c] /\ storageType(c) = "localStorage"

\* (mutant) a handler that falls back to the default when the payload does
\* not parse.
handleStorageChangeFallingBack(c, e) ==
  IF e.key = key(c) /\ e.newValue # Absent
    THEN IF Parses(e.newValue)
           THEN Merge(defaultValue(c), JSONparse(e.newValue))
           ELSE defaultValue(c)
    ELSE state[c]

\* handleStorageChange(e): the state it leaves.
handleStorageChange(c, e) ==
  IF e.key = key(c) /\ e.newValue # Absent
    THEN IF Parses(e.newValue)
           THEN Merge(defaultValue(c), JSONparse(e.newValue))
           ELSE state[c]
    ELSE state[c]

\* Does handleStorageChange(e) reach its setState?
Applies(c, e) == e.key = key(c) /\ e.newValue # Absent /\ Parses(e.newValue)

\* The browser dispatches the oldest queued 'storage' event to c's window.
StorageEvent(c) ==
  /\ inbox[c] # <<>>
  /\ inbox' = [inbox EXCEPT ![c] = Tail(@)]
  /\ state' = [state EXCEPT
       ![c] = IF Listening(c) THEN handleStorageChange(c, Head(inbox[c])) ELSE @]
  /\ last' = [act |-> IF Listening(c) THEN "handleStorageChange" ELSE "NoListener",
              c |-> c, calls |-> <<>>, ret |-> <<>>, event |-> <<Head(inbox[c])>>,
              arg |-> <<>>, burst |-> <<>>]
  /\ burst' = [burst EXCEPT ![c].notified =
       @ \/ (Listening(c) /\ burst[c].open /\ Applies(c, Head(inbox[c])))]
  /\ UNCHANGED <<export, available, store, phase, storage, isInitialized, debounceRef,
                 timers, sinceReset>>

\* (mutant) an unmount without the cleanup effect.
CleanupTimersNone(c) == timers[c]

\* The timers the cleanup effect leaves.
CleanupTimers(c) ==
  IF debounceRef[c] # 0 THEN clearTimeout(timers[c], debounceRef[c]) ELSE timers[c]

\* Unmount: the cleanup effects run (clear the timeout, unsubscribe).
Unmount(c) ==
  /\ phase[c] = "mounted"
  /\ phase' = [phase EXCEPT ![c] = "unmounted"]
  /\ timers' = [timers EXCEPT ![c] = CleanupTimers(c)]
  /\ inbox' = [inbox EXCEPT ![c] = <<>>]
  /\ burst' = [burst EXCEPT ![c] = NoBurst]
  /\ last' = [act |-> "Unmount", c |-> c, calls |-> <<>>, ret |-> <<>>,
              event |-> <<>>, arg |-> <<>>, burst |-> <<burst[c]>>]
  /\ UNCHANGED <<export, available, store, storage, state, isInitialized, debounceRef,
                 sinceReset>>

-----------------------------------------------------------------------------
(* useCalculatorState *)

\* key.startsWith(appPrefix), appPrefix = 'calculator', for the keys of the model
StartsWithPrefix(k) == k \in {STORAGE_KEY, PREFERENCES_KEY}

\* (mutant) clearAllAppStorage collecting the calculator's own key only.
keysToRemoveOwnKey ==
  IF ~getStorageManager THEN {}
  ELSE {k \in Keys : store[k] # Absent /\ k = STORAGE_KEY}

\* clearAllAppStorage: the keys it collects (all present keys with the prefix).
keysToRemove ==
  IF ~getStorageManager THEN {}
  ELSE {k \in Keys : store[k] # Absent /\ StartsWithPrefix(k)}

\* A set of keys in the order storage.key(i) lists them.
RECURSIVE KeySeq(_)
KeySeq(ks) ==
  IF ks = {} THEN <<>>
  ELSE LET k == IF STORAGE_KEY \in ks THEN STORAGE_KEY ELSE CHOOSE x \in ks : TRUE
       IN <<k>> \o KeySeq(ks \ {k})

\* The events a run of removals queues in the windows of the other contexts.
RemovalEvents(ks) == [i \in 1..Len(KeySeq(ks)) |-> [key |-> KeySeq(ks)[i], newValue |-> Absent]]
RemovalCalls(ks) == [i \in 1..Len(KeySeq(ks)) |-> Call("removeItem", KeySeq(ks)[i], Absent, TRUE)]

\* The removeItem that threw inside clearAllAppStorage, when one did.
ThrownCall(removed) ==
  IF removed = keysToRemove THEN <<>>
  ELSE <<Call("removeItem", KeySeq(keysToRemove \ removed)[1], Absent, FALSE)>>

\* resetAllValues(): clearAllAppStorage('calculator'), then resetToDefault().
\* `removed` are the entries clearAllAppStorage removed before a removeItem
\* threw (all of keysToRemove when none throws); ok is the outcome of the
\* removeItem of resetToDefault's clearStoredValue.
resetAllValues(c, removed, ok) ==
  /\ Live(c)
  /\ removed \subseteq keysToRemove
  /\ storage[c] \/ ok
  /\ LET own == IF storage[c] /\ ok /\ store[key(c)] # Absent /\ key(c) \notin removed
                  THEN {key(c)} ELSE {}
         events == RemovalEvents(removed) \o RemovalEvents(own)
     IN /\ \A w \in Windows(c) : Len(inbox[w]) + Len(events) <= MaxInbox
        /\ store' = [k \in Keys |->
             IF k \in removed \/ (storage[c] /\ ok /\ k = key(c)) THEN Absent ELSE store[k]]
        /\ inbox' = [w \in Containers |->
             IF w \in Windows(c) THEN inbox[w] \o events ELSE inbox[w]]
        /\ last' = [act |-> "resetAllValues", c |-> c,
                    calls |-> RemovalCalls(removed) \o ThrownCall(removed) \o
                      (IF storage[c] THEN <<Call("removeItem", key(c), Absent, ok)>>
                       ELSE <<>>),
                    ret |-> <<>>, event |-> <<>>, arg |-> <<>>, burst |-> <<burst[c]>>]
  /\ timers' = [timers EXCEPT ![c] = clearStoredValueTimers(c)]
  /\ burst' = [burst EXCEPT ![c] = IF storage[c] THEN NoBurst ELSE @]
  /\ state' = [state EXCEPT ![c] = defaultValue(c)]
  /\ sinceReset' = [sinceReset EXCEPT ![c] = [done |-> TRUE, all |-> TRUE]]
  /\ UNCHANGED <<export, available, phase, storage, isInitialized, debounceRef>>

\* hasUnsavedChanges(): the two serializations differ.
hasUnsavedChanges(c) == JSONstringify(state[c]) # JSONstringify(defaultValue(c))

-----------------------------------------------------------------------------
(* storageUtils, called by hand from a context "U" that holds no container. *)

\* Values given to storageUtils.set: an old-shaped record and one written in
\* another field order for the calculator key, one preferences object for the
\* other.
UtilsValues(k) ==
  IF k = STORAGE_KEY
    THEN {<< <<"targetDishes", 250>> >>,
          << <<"targetDishes", 250>>, <<"localCustomers", 250>> >>}
    ELSE {<< <<"lastUsedTab", "about">> >>}

\* storageUtils.get(key, defaultValue): the value returned.
storageUtils_get(k, dflt) ==
  IF ~getStorageManager THEN dflt
  ELSE IF store[k] # Absent
         THEN IF Parses(store[k]) THEN JSONparse(store[k]) ELSE dflt
         ELSE dflt

\* storageUtils.has(key): the value returned.
storageUtils_has(k) ==
  IF ~getStorageManager THEN FALSE ELSE store[k] # Absent

\* storageUtils.set and storageUtils.remove return whether the call went through.
storageUtils_returns(ok) == IF ~getStorageManager THEN FALSE ELSE ok

UtilsGet(k, dflt) ==
  /\ last' = [act |-> "storageUtils.get", c |-> "U", calls |-> ProbeCalls,
              ret |-> <<storageUtils_get(k, dflt)>>, event |-> <<>>,
                        arg |-> <<>>, burst |-> <<>>]
  /\ UNCHANGED <<export, available, store, phase, storage, state, isInitialized,
                 debounceRef, timers, inbox, burst, sinceReset>>

UtilsHas(k) ==
  /\ last' = [act |-> "storageUtils.has", c |-> "U", calls |-> ProbeCalls,
              ret |-> <<storageUtils_has(k)>>, event |-> <<>>,
                        arg |-> <<>>, burst |-> <<>>]
  /\ UNCHANGED <<export, available, store, phase, storage, state, isInitialized,
                 debounceRef, timers, inbox, burst, sinceReset>>

UtilsSet(k, v, ok) ==
  /\ getStorageManager \/ ok
  /\ IF getStorageManager
       THEN /\ SetItem("U", k, JSONstringify(v), ok)
            /\ last' = [act |-> "storageUtils.set", c |-> "U",
                        calls |-> ProbeCalls \o <<Call("setItem", k, JSONstringify(v), ok)>>,
                        ret |-> <<storageUtils_returns(ok)>>, event |-> <<>>,
                        arg |-> <<>>, burst |-> <<>>]
       ELSE /\ UNCHANGED <<store, inbox>>
            /\ last' = [act |-> "storageUtils.set", c |-> "U", calls |-> ProbeCalls,
                        ret |-> <<storageUtils_returns(ok)>>, event |-> <<>>,
                        arg |-> <<>>, burst |-> <<>>]
  /\ UNCHANGED <<export, available, phase, storage, state, isInitialized, debounceRef,
                 timers, burst, sinceReset>>

UtilsRemove(k, ok) ==
  /\ getStorageManager \/ ok
  /\ IF getStorageManager
       THEN /\ RemoveItem("U", k, ok)
            /\ last' = [act |-> "storageUtils.remove", c |-> "U",
                        calls |-> ProbeCalls \o <<Call("removeItem", k, Absent, ok)>>,
                        ret |-> <<storageUtils_returns(ok)>>, event |-> <<>>,
                        arg |-> <<>>, burst |-> <<>>]
       ELSE /\ UNCHANGED <<store, inbox>>
            /\ last' = [act |-> "storageUtils.remove", c |-> "U", calls |-> ProbeCalls,
                        ret |-> <<storageUtils_returns(ok)>>, event |-> <<>>,
                        arg |-> <<>>, burst |-> <<>>]
  /\ UNCHANGED <<export, available, phase, storage, state, isInitialized, debounceRef,
                 timers, burst, sinceReset>>

\* The entry of k is edited by hand into a text that is no JSON (the testing
\* guide's corrupted-storage test), from the context "U"; a storage that
\* accepts no write accepts no edit either.
ManualEdit(k) ==
  /\ available
  /\ SetItem("U", k, Garbage, TRUE)
  /\ last' = [act |-> "ManualEdit", c |-> "U",
              calls |-> <<Call("setItem", k, Garbage, TRUE)>>, ret |-> <<>>,
              event |-> <<>>, arg |-> <<>>, burst |-> <<>>]
  /\ UNCHANGED <<export, available, phase, storage, state, isInitialized, debounceRef,
                 timers, burst, sinceReset>>

-----------------------------------------------------------------------------
(* The system *)

\* No container has rendered yet.
InitContainers ==
  /\ phase = [c \in Containers |-> "none"]
  /\ storage = [c \in Containers |-> FALSE]
  /\ state = [c \in Containers |-> defaultValue(c)]
  /\ isInitialized = [c \in Containers |-> FALSE]
  /\ debounceRef = [c \in Containers |-> 0]
  /\ timers = [c \in Containers |-> {}]
  /\ inbox = [c \in Containers |-> <<>>]
  /\ last = [act |-> "Init", c |-> "U", calls |-> <<>>, ret |-> <<>>, event |-> <<>>, arg |-> <<>>, burst |-> <<>>]
  /\ burst = [c \in Containers |-> NoBurst]
  /\ sinceReset = [c \in Containers |-> NoReset]

\* Nothing has been exported yet, in a browser that takes the modern path.
NoExport ==
  [env |-> "modern", calls |-> 0, caller |-> "none", promise |-> "none",
   reader |-> FALSE, running |-> FALSE, toasts |-> {}, notices |-> <<>>,
   urls |-> {}, revoke |-> {}]

Init ==
  /\ export = NoExport
  /\ available \in BOOLEAN
  /\ store \in {[k \in Keys |-> IF k = STORAGE_KEY THEN t ELSE Absent] : t \in InitialTexts}
  /\ InitContainers

ContainerStep(c) ==
  \/ Mount(c)
  \/ Effects(c)
  \/ \E nv \in NewValues : Update(c, nv)
  \/ \E t \in timers[c], ok \in BOOLEAN : FireTimer(c, t, ok)
  \/ \E ok \in BOOLEAN : Clear(c, ok)
  \/ \E ok \in BOOLEAN : resetToDefault(c, ok)
  \/ \E removed \in SUBSET Keys, ok \in BOOLEAN : resetAllValues(c, removed, ok)
  \/ StorageEvent(c)
  \/ Unmount(c)

\* The key the context "U" works on.
UtilsKeys == {STORAGE_KEY}

UtilsStep ==
  \/ \E k \in UtilsKeys : UtilsGet(k, defaultValues)
  \/ \E k \in UtilsKeys : UtilsHas(k)
  \/ \E k \in UtilsKeys, ok \in BOOLEAN : \E v \in UtilsValues(k) : UtilsSet(k, v, ok)
  \/ \E k \in UtilsKeys, ok \in BOOLEAN : UtilsRemove(k, ok)
  \/ ManualEdit(STORAGE_KEY)

Next == ContainerStep("A") \/ UtilsStep

Spec == Init /\ [][Next]_vars

\* Two tabs.  Both containers load, update, write, reset and hear each
\* other; in both tabs the one slider moved is localCustomers.
TabNewValues ==
  {nv \in NewValues :
     IF nv.fn THEN nv.updates = << <<"localCustomers", 250>> >>
     ELSE nv.value = defaultValues}

TabStep(c) ==
  \/ Mount(c)
  \/ Effects(c)
  \/ \E nv \in TabNewValues : Update(c, nv)
  \/ \E t \in timers[c] : FireTimer(c, t, TRUE)
  \/ StorageEvent(c)

ResetStep(c) ==
  \/ resetToDefault(c, TRUE)
  \/ resetAllValues(c, keysToRemove, TRUE)

NextTabs == \E c \in Containers : TabStep(c) \/ ResetStep(c)

InitTabs ==
  /\ Init
  /\ available
  /\ store[STORAGE_KEY] \in {Absent, JSONstringify(<< <<"localCustomers", 250>> >>)}

SpecTabs == InitTabs /\ [][NextTabs]_vars

\* One tab and the timer's fairness.  The container loads, is updated, cleared,
\* reset and torn down; another context writes the key, which the container
\* hears as 'storage' events; no storage call throws.  A timeout that stays
\* armed fires.
LiveValues ==
  {<< <<f, IF f = "localCustomers" THEN lc ELSE td>>,
      <<g, IF g = "localCustomers" THEN lc ELSE td>> >> :
     f \in {"localCustomers", "targetDishes"},
     g \in {"localCustomers", "targetDishes"},
     lc \in {100, 250}, td \in {200, 250}}

ArmedTimers ==
  {t \in [id : 1..(MaxPending + 1), value : LiveValues] : t.value[1][1] # t.value[2][1]}

NextLive ==
  \/ Mount("A")
  \/ Effects("A")
  \/ \E nv \in NewValues : Update("A", nv)
  \/ \E t \in timers["A"] : FireTimer("A", t, TRUE)
  \/ Clear("A", TRUE)
  \/ resetToDefault("A", TRUE)
  \/ StorageEvent("A")
  \/ Unmount("A")
  \/ \E v \in UtilsValues(STORAGE_KEY) : UtilsSet(STORAGE_KEY, v, TRUE)

SpecLive ==
  /\ InitTabs
  /\ [][NextLive]_vars
  /\ \A t \in ArmedTimers : WF_vars(FireTimer("A", t, TRUE))

\* The full reset.  One container over a storage that can hold, from earlier
\* sessions, entries of the calculator, of its preferences and of another
\* application; removeItem may throw.
OtherTexts(k) == {Absent} \cup {JSONstringify(v) : v \in UtilsValues(k)}

InitReset ==
  /\ InitContainers
  /\ export = NoExport
  /\ available = TRUE
  /\ store \in {[k \in Keys |-> IF k = STORAGE_KEY THEN t ELSE IF k = PREFERENCES_KEY THEN p ELSE o] :
                  t \in {Absent, JSONstringify(<< <<"localCustomers", 250>> >>)},
                  p \in OtherTexts(PREFERENCES_KEY), o \in OtherTexts(OTHER_KEY)}

NextReset ==
  \/ Mount("A")
  \/ Effects("A")
  \/ \E nv \in TabNewValues : Update("A", nv)
  \/ \E t \in timers["A"], ok \in BOOLEAN : FireTimer("A", t, ok)
  \/ \E removed \in SUBSET Keys, ok \in BOOLEAN : resetAllValues("A", removed, ok)

SpecReset == InitReset /\ [][NextReset]_vars

-----------------------------------------------------------------------------
(* csvExport.  A text is a sequence of characters.                           *)

COMMA == ","
QUOTE == "\""
LF == "\n"
CR == "\r"
Alphabet == {"a", COMMA, QUOTE, LF, CR}

\* null or undefined
Null == <<"null or undefined">>

RECURSIVE TextsUpTo(_)
TextsUpTo(n) ==
  IF n = 0 THEN {<<>>}
  ELSE TextsUpTo(n - 1) \cup {Append(s, a) : s \in TextsUpTo(n - 1), a \in Alphabet}

Texts == TextsUpTo(MaxText)

\* stringValue.includes(ch)
Includes(s, ch) == \E i \in 1..Len(s) : s[i] = ch

\* (mutant) quotes left single.
KeepQuotes(s) == s

\* stringValue.replace(/"/g, '""')
RECURSIVE DoubleQuotes(_)
DoubleQuotes(s) ==
  IF s = <<>> THEN <<>>
  ELSE (IF Head(s) = QUOTE THEN <<QUOTE, QUOTE>> ELSE <<Head(s)>>) \o DoubleQuotes(Tail(s))

formatCsvValue(value) ==
  IF value = Null THEN <<>>
  ELSE IF Includes(value, COMMA) \/ Includes(value, QUOTE)
          \/ Includes(value, LF) \/ Includes(value, CR)
         THEN <<QUOTE>> \o DoubleQuotes(value) \o <<QUOTE>>
         ELSE value

\* texts.join(sep)
RECURSIVE Join(_, _)
Join(texts, sep) ==
  IF texts = <<>> THEN <<>>
  ELSE IF Len(texts) = 1 THEN texts[1]
  ELSE texts[1] \o <<sep>> \o Join(Tail(texts), sep)

\* row[header]: undefined when the row has no such field.
Lookup(row, header) == IF Has(row, header) THEN Get(row, header) ELSE Null

\* The lines one section pushes, before the separator.
TitleLines(section) ==
  IF section.title # <<>> THEN <<formatCsvValue(section.title), <<>>>> ELSE <<>>

HeaderLines(section) ==
  IF Len(section.headers) > 0
    THEN <<Join([i \in 1..Len(section.headers) |-> formatCsvValue(section.headers[i])],
                COMMA)>>
    ELSE <<>>

\* (mutant) a row rendered in the order of its own fields whatever the headers.
RowLineObjectOrder(section, row) ==
  Join([i \in 1..Len(row) |-> formatCsvValue(row[i][2])], COMMA)

RowLine(section, row) ==
  IF Len(section.headers) > 0
    THEN Join([i \in 1..Len(section.headers) |->
                 formatCsvValue(Lookup(row, section.headers[i]))], COMMA)
    ELSE Join([i \in 1..Len(row) |-> formatCsvValue(row[i][2])], COMMA)

SectionLines(section) ==
  TitleLines(section) \o HeaderLines(section)
    \o [i \in 1..Len(section.rows) |-> RowLine(section, section.rows[i])]

RECURSIVE csvLines(_, _)
csvLines(sections, sectionIndex) ==
  IF sectionIndex > Len(sections) THEN <<>>
  ELSE SectionLines(sections[sectionIndex])
         \o (IF sectionIndex < Len(sections) THEN << <<>> >> ELSE <<>>)
         \o csvLines(sections, sectionIndex + 1)

sectionsToCSV(sections) == Join(csvLines(sections, 1), LF)

\* Sections given to sectionsToCSV: a row whose fields come in another order
\* than the headers and whose value holds a comma; rows that lack a header's
\* field and hold a field no header names; a section without headers (a null
\* value); an empty section; a row that renders as an empty line; a header
\* and a value that hold line breaks.
SectionPool ==
  LET h == <<"h">>
      k == <<"k">>
      z == <<"z">>
      hl == <<"h", LF>>
  IN { [title |-> <<"a">>, headers |-> <<h, k>>,
        rows |-> << << <<k, <<"a", COMMA, "a">>>>, <<h, <<"a">>>> >> >>],
       [title |-> <<>>, headers |-> <<h, k>>,
        rows |-> << << <<h, <<"a">>>> >>, << <<z, <<"a">>>>, <<k, <<QUOTE>>>> >> >>],
       [title |-> <<"a", COMMA>>, headers |-> <<>>,
        rows |-> << << <<z, <<"a">>>>, <<h, Null>> >> >>],
       [title |-> <<>>, headers |-> <<>>, rows |-> <<>>],
       [title |-> <<>>, headers |-> <<h>>, rows |-> << <<>> >>],
       [title |-> <<"a">>, headers |-> <<hl>>,
        rows |-> << << <<hl, <<"a", LF, LF, "a">>>> >> >>] }

RECURSIVE SectionLists(_)
SectionLists(n) ==
  IF n = 0 THEN {<<>>}
  ELSE SectionLists(n - 1)
         \cup {Append(l, s) : l \in {x \in SectionLists(n - 1) : Len(x) = n - 1},
                              s \in SectionPool}

\* One call of an export function, from the context "U".
FormatValue(value) ==
  /\ last' = [act |-> "formatCsvValue", c |-> "U", calls |-> <<>>,
              ret |-> <<formatCsvValue(value)>>, event |-> <<>>, arg |-> <<value>>,
              burst |-> <<>>]
  /\ UNCHANGED <<export, available, store, phase, storage, state, isInitialized,
                 debounceRef, timers, inbox, burst, sinceReset>>

SectionsToCSV(sections) ==
  /\ last' = [act |-> "sectionsToCSV", c |-> "U", calls |-> <<>>,
              ret |-> <<sectionsToCSV(sections)>>, event |-> <<>>, arg |-> <<sections>>,
              burst |-> <<>>]
  /\ UNCHANGED <<export, available, store, phase, storage, state, isInitialized,
                 debounceRef, timers, inbox, burst, sinceReset>>

InitCsv ==
  /\ InitContainers
  /\ export = NoExport
  /\ available = TRUE
  /\ store = [k \in Keys |-> Absent]

NextCsv ==
  \/ \E value \in Texts \cup {Null} : FormatValue(value)
  \/ \E sections \in SectionLists(MaxSections) : SectionsToCSV(sections)

SpecCsv == InitCsv /\ [][NextCsv]_vars

-----------------------------------------------------------------------------
(* exportData: the export record and its five sections.  The Thai labels of  *)
(* the source are written by their English meaning.                         *)

DigitChars == <<"0", "1", "2", "3", "4", "5", "6", "7", "8", "9">>

\* String(n) / n.toString() of a natural number.
RECURSIVE toString(_)
toString(n) ==
  IF n < 10 THEN <<DigitChars[n + 1]>>
  ELSE toString(n \div 10) \o <<DigitChars[(n % 10) + 1]>>

\* What JavaScript yields for 0/0.
NaN == <<"N", "a", "N">>

\* Math.round(num / den) for num >= 0, den > 0: halves go up.
Round(num, den) == (2 * num + den) \div (2 * den)

\* ((part / total) * 100).toFixed(1) for part >= 0, total > 0.
toFixed1(part, total) ==
  LET tenths == Round(1000 * part, total)
  IN toString(tenths \div 10) \o <<".">> \o toString(tenths % 10)

\* (mutant) the percentage cell without the guard on totalCapacity.
PercentOfTotalUnguarded(part, totalCapacity) ==
  IF totalCapacity # 0 THEN toFixed1(part, totalCapacity) \o <<"%">>
  ELSE NaN \o <<"%">>

\* totalCapacity > 0 ? `${((part / totalCapacity) * 100).toFixed(1)}%` : '0%'
PercentOfTotal(part, totalCapacity) ==
  IF totalCapacity > 0 THEN toFixed1(part, totalCapacity) \o <<"%">>
  ELSE <<"0", "%">>

\* createExportMetadata(): date and time in the th-TH locale, fixed texts.
createExportMetadata ==
  [exportDate |-> "exportDate", exportTime |-> "exportTime",
   appName |-> "Customer Rotation Calculator", version |-> "1.0.0",
   timezone |-> "timezone"]

\* Math.round(Math.min(100, (targetDishes / totalCapacity) * 100)): a division
\* by zero yields Infinity, which Math.min caps, and 0/0 yields NaN.  The rate
\* is carried as the decimal text the analysis section prints of it.
UtilizationRate(targetDishes, totalCapacity) ==
  IF totalCapacity = 0
    THEN IF targetDishes = 0 THEN NaN ELSE toString(100)
    ELSE LET rate == Round(100 * targetDishes, totalCapacity)
         IN toString(IF rate > 100 THEN 100 ELSE rate)

\* (mutant) a summary that counts a gap of zero as a shortfall.
createAnalysisSummaryStrict(values, results) ==
  LET targetDishes == Get(values, "targetDishes")
      abs == IF results.gap < 0 THEN 0 - results.gap ELSE results.gap
  IN [status |-> IF results.gap > 0 THEN "exceeds target" ELSE "below target",
      capacityStatus |-> IF results.gap > 0 THEN "sufficient" ELSE "insufficient",
      recommendation |->
        IF results.gap > 0
          THEN IF 10 * results.gap > 2 * targetDishes
                 THEN "large surplus" ELSE "moderate surplus"
          ELSE IF 10 * abs > targetDishes
                 THEN "urgent" ELSE "moderate shortfall",
      utilizationRate |-> UtilizationRate(targetDishes, results.totalCapacity)]

\* createAnalysisSummary(values, results); the comparisons with
\* targetDishes * 0.2 and targetDishes * 0.1 are made in tenths.
createAnalysisSummary(values, results) ==
  LET targetDishes == Get(values, "targetDishes")
      abs == IF results.gap < 0 THEN 0 - results.gap ELSE results.gap
  IN [status |-> IF results.gap >= 0 THEN "exceeds target" ELSE "below target",
      capacityStatus |-> IF results.gap >= 0 THEN "sufficient" ELSE "insufficient",
      recommendation |->
        IF results.gap >= 0
          THEN IF 10 * results.gap > 2 * targetDishes
                 THEN "large surplus" ELSE "moderate surplus"
          ELSE IF 10 * abs > targetDishes
                 THEN "urgent" ELSE "moderate shortfall",
      utilizationRate |-> UtilizationRate(targetDishes, results.totalCapacity)]

\* aggregateExportData(values, results)
aggregateExportData(values, results) ==
  [metadata |-> createExportMetadata,
   inputValues |-> values,
   calculatedResults |-> results,
   analysis |-> createAnalysisSummary(values, results)]

\* A row literal: the cells under their headers, in the order written.
Row(headers, cells) == [i \in 1..Len(headers) |-> <<headers[i], cells[i]>>]

MetadataSection(exportData) ==
  LET headers == <<"item", "value">>
  IN [title |-> "Customer Rotation Analysis Report", headers |-> headers,
      rows |-> << Row(headers, <<"export date", exportData.metadata.exportDate>>),
                  Row(headers, <<"export time", exportData.metadata.exportTime>>),
                  Row(headers, <<"application name", exportData.metadata.appName>>),
                  Row(headers, <<"version", exportData.metadata.version>>),
                  Row(headers, <<"timezone", exportData.metadata.timezone>>) >>]

\* One row per field of the input snapshot (the model's CalculatorValues
\* keeps two of the eleven fields).
InputSection(exportData) ==
  LET headers == <<"parameter", "value", "unit", "description">>
  IN [title |-> "Input Parameters", headers |-> headers,
      rows |-> << Row(headers, <<"local customers",
                                 Lookup(exportData.inputValues, "localCustomers"),
                                 "people", "regular customers in the area">>),
                  Row(headers, <<"Target dishes per day",
                                 Lookup(exportData.inputValues, "targetDishes"),
                                 "dishes", "dishes to sell per day">>) >>]

ResultsSection(exportData) ==
  LET headers == <<"metric", "value", "unit", "formula">>
      r == exportData.calculatedResults
  IN [title |-> "Calculated Results", headers |-> headers,
      rows |-> << Row(headers, <<"Active Base (local)", r.localActiveBase, "people", "A = D x tau / mu">>),
                  Row(headers, <<"Active Base (tourist)", r.touristActiveBase, "people", "A = D x tau / mu">>),
                  Row(headers, <<"Capacity (local)", r.localCapacity, "dishes/day", "C = N x mu x S / tau">>),
                  Row(headers, <<"Capacity (tourist)", r.touristCapacity, "dishes/day", "C = N x mu x S / tau">>),
                  Row(headers, <<"Capacity (Walk-in)", r.walkInCapacity, "dishes/day", "C = W x mu x S">>),
                  Row(headers, <<"Total Capacity", r.totalCapacity, "dishes/day", "TC = LC + TouC + WC">>),
                  Row(headers, <<"Groups per day", r.groupsPerDay, "groups", "G = Total Customers / Group Size">>),
                  Row(headers, <<"Gap", r.gap, "dishes", "Gap = Total Capacity - Target">>),
                  Row(headers, <<"Utilization Rate", r.utilizationRate, "%", "UR = (Target / Total Capacity) x 100">>) >>]

AnalysisSection(exportData) ==
  LET headers == <<"topic", "result">>
  IN [title |-> "Analysis Summary", headers |-> headers,
      rows |-> << Row(headers, <<"current status", exportData.analysis.status>>),
                  Row(headers, <<"capacity status", exportData.analysis.capacityStatus>>),
                  Row(headers, <<"utilization rate", exportData.analysis.utilizationRate \o <<"%">> >>),
                  Row(headers, <<"recommendation", exportData.analysis.recommendation>>) >>]

BreakdownSection(exportData) ==
  LET headers == <<"customer type", "Capacity (dishes/day)", "% of Total Capacity",
                   "recommended share">>
      r == exportData.calculatedResults
      totalCapacity == r.totalCapacity
  IN [title |-> "Capacity Breakdown", headers |-> headers,
      rows |-> << Row(headers, <<"local customers", r.localCapacity,
                                 PercentOfTotal(r.localCapacity, totalCapacity), "60-70%">>),
                  Row(headers, <<"tourists", r.touristCapacity,
                                 PercentOfTotal(r.touristCapacity, totalCapacity), "20-30%">>),
                  Row(headers, <<"Walk-in", r.walkInCapacity,
                                 PercentOfTotal(r.walkInCapacity, totalCapacity), "10-15%">>) >>]

\* convertToCSVSections(exportData)
convertToCSVSections(exportData) ==
  << MetadataSection(exportData), InputSection(exportData), ResultsSection(exportData),
     AnalysisSection(exportData), BreakdownSection(exportData) >>

\* Input snapshots and metric snapshots given to the export functions.  The
\* total capacity is drawn independently of its three parts.
ExportValues ==
  {<< <<"localCustomers", 100>>, <<"targetDishes", t>> >> : t \in {0, 10, 20}}

TotalCapacities == {0, 3, 8}

ExportResults ==
  [localActiveBase : {350}, touristActiveBase : {750},
   localCapacity : 0..MaxCapacity, touristCapacity : 0..MaxCapacity,
   walkInCapacity : {0, 1}, totalCapacity : TotalCapacities,
   groupsPerDay : {50}, gap : {-3, MaxGap}, utilizationRate : {80}]

SummaryResults ==
  [localActiveBase : {350}, touristActiveBase : {750},
   localCapacity : {1}, touristCapacity : {1}, walkInCapacity : {1},
   totalCapacity : TotalCapacities,
   groupsPerDay : {50}, gap : (0 - 3)..MaxGap, utilizationRate : {80}]

CreateAnalysisSummary(values, results) ==
  /\ last' = [act |-> "createAnalysisSummary", c |-> "U", calls |-> <<>>,
              ret |-> <<createAnalysisSummary(values, results)>>, event |-> <<>>,
              arg |-> <<values, results>>, burst |-> <<>>]
  /\ UNCHANGED <<export, available, store, phase, storage, state, isInitialized,
                 debounceRef, timers, inbox, burst, sinceReset>>

ConvertToCSVSections(exportData) ==
  /\ last' = [act |-> "convertToCSVSections", c |-> "U", calls |-> <<>>,
              ret |-> <<convertToCSVSections(exportData)>>, event |-> <<>>,
              arg |-> <<exportData>>, burst |-> <<>>]
  /\ UNCHANGED <<export, available, store, phase, storage, state, isInitialized,
                 debounceRef, timers, inbox, burst, sinceReset>>

\* (mutant) no padding.
padStartNone(s, targetLength, padString) == s

\* s.padStart(targetLength, padString) for a one-character padString.
RECURSIVE padStart(_, _, _)
padStart(s, targetLength, padString) ==
  IF Len(s) >= targetLength THEN s
  ELSE padStart(<<padString>> \o s, targetLength, padString)

\* generateFilename(baseName, extension) when new Date() is `now`: the fields
\* of now are what getFullYear, getMonth (from 0), getDate, getHours,
\* getMinutes and getSeconds return.
generateFilename(baseName, extension, now) ==
  LET timestamp ==
        toString(now.year)
          \o padStart(toString(now.month + 1), 2, "0")
          \o padStart(toString(now.date), 2, "0")
          \o <<"_">>
          \o padStart(toString(now.hours), 2, "0")
          \o padStart(toString(now.minutes), 2, "0")
          \o padStart(toString(now.seconds), 2, "0")
  IN baseName \o <<"_">> \o timestamp \o <<".">> \o extension

\* options.filename || generateFilename('customer_rotation_export'); a text
\* is a sequence of pieces, a name being one piece.
Filename(options, now) ==
  IF options.filename \notin {Null, <<>>} THEN options.filename
  ELSE generateFilename(<<"customer_rotation_export">>, <<"csv">>, now)

\* Local wall-clock instants, names and options.
Clocks ==
  [year : {2026, 9999}, month : {0, 11}, date : {1, 31},
   hours : {0, 23}, minutes : {0, 59}, seconds : {5, 59}]

BaseNames == {<<"export">>, <<"customer_rotation_export">>}
Extensions == {<<"csv">>, <<"txt">>}
DownloadOptions == {[filename |-> f] : f \in {Null, <<>>, <<"report.csv">>}}

GenerateFilename(baseName, extension, now) ==
  /\ last' = [act |-> "generateFilename", c |-> "U", calls |-> <<>>,
              ret |-> <<generateFilename(baseName, extension, now)>>, event |-> <<>>,
              arg |-> <<baseName, extension, now>>, burst |-> <<>>]
  /\ UNCHANGED <<export, available, store, phase, storage, state, isInitialized,
                 debounceRef, timers, inbox, burst, sinceReset>>

\* The first statement of downloadCSV: the name the file will get.
DownloadFilename(options, now) ==
  /\ last' = [act |-> "downloadCSV.filename", c |-> "U", calls |-> <<>>,
              ret |-> <<Filename(options, now)>>, event |-> <<>>,
              arg |-> <<options, now>>, burst |-> <<>>]
  /\ UNCHANGED <<export, available, store, phase, storage, state, isInitialized,
                 debounceRef, timers, inbox, burst, sinceReset>>

InitExport ==
  /\ InitContainers
  /\ export = NoExport
  /\ available = TRUE
  /\ store = [k \in Keys |-> Absent]

NextExport ==
  \/ \E values \in ExportValues, results \in SummaryResults :
       CreateAnalysisSummary(values, results)
  \/ \E values \in ExportValues, results \in ExportResults :
       /\ Get(values, "targetDishes") <= 10
       /\ ConvertToCSVSections(aggregateExportData(values, results))
  \/ \E baseName \in BaseNames, extension \in Extensions, now \in Clocks :
       GenerateFilename(baseName, extension, now)
  \/ \E options \in DownloadOptions, now \in Clocks : DownloadFilename(options, now)

SpecExport == InitExport /\ [][NextExport]_vars

-----------------------------------------------------------------------------
(* The export button: App.handleExport and downloadCSV.  A click runs the    *)
(* handler up to its await; the executor of downloadCSV's promise runs      *)
(* inside that step, and when it settles the promise the rest of the handler *)
(* follows before any other event, so it belongs to the same step.          *)

\* The browser: no window object, one of the user agents named in downloadCSV,
\* or any other one (FileReader fallback).
Envs == {"no window", "modern", "older"}

\* The statements of handleExport before downloadCSV, which may throw.
HandlerSteps ==
  {"calculateMetrics", "aggregateExportData", "convertToCSVSections", "sectionsToCSV"}

\* The statements of downloadCSV's executor that run in a browser, each of
\* which may throw.
DownloadSteps(env) ==
  IF env = "modern" THEN {"Blob", "createObjectURL", "appendChild", "click", "removeChild"}
  ELSE IF env = "older" THEN {"Blob", "readAsDataURL"}
  ELSE {"Blob"}

\* downloadCSV(csvContent, options): what the executor has done when it
\* returns, the statement failAt throwing if it is reached ("none": nothing
\* throws).  url: the object URL created; revoke: its revocation was
\* scheduled; reader: a FileReader is reading.
downloadCSV(env, failAt, url) ==
  IF failAt = "Blob"
    THEN [promise |-> "rejected", urls |-> {}, revoke |-> {}, reader |-> FALSE]
  ELSE IF env = "no window"
    THEN [promise |-> "rejected", urls |-> {}, revoke |-> {}, reader |-> FALSE]
  ELSE IF env = "modern"
    THEN IF failAt = "createObjectURL"
           THEN [promise |-> "rejected", urls |-> {}, revoke |-> {}, reader |-> FALSE]
         ELSE IF failAt \in {"appendChild", "click", "removeChild"}
           THEN [promise |-> "rejected", urls |-> {url}, revoke |-> {}, reader |-> FALSE]
         ELSE [promise |-> "resolved", urls |-> {url}, revoke |-> {url}, reader |-> FALSE]
  ELSE IF failAt = "readAsDataURL"
    THEN [promise |-> "rejected", urls |-> {}, revoke |-> {}, reader |-> FALSE]
  ELSE [promise |-> "pending", urls |-> {}, revoke |-> {}, reader |-> TRUE]

\* A notice of the toast library: toast.loading stays until it is dismissed,
\* the other kinds leave by themselves.
Toast(id, kind) == [id |-> id, kind |-> kind]

\* The handler after `await downloadCSV(...)` for its attempt id: on true,
\* dismiss the loading notice and show success; on a rejection, the catch
\* block shows the error notice.
AfterAwait(ex, id, promise) ==
  IF promise = "resolved"
    THEN [ex EXCEPT !.promise = promise, !.running = FALSE,
                    !.toasts = (@ \ {Toast(id, "loading")}) \cup {Toast(id, "success")},
                    !.notices = Append(@, "success")]
    ELSE [ex EXCEPT !.promise = promise, !.running = FALSE,
                    !.toasts = @ \cup {Toast(id, "error")},
                    !.notices = Append(@, "error")]

Started(caller) ==
  [export EXCEPT !.calls = @ + 1, !.caller = caller, !.promise = "none",
                 !.reader = FALSE, !.running = FALSE, !.notices = <<>>]

\* A click on the export button.
handleExport(failAt) ==
  /\ export.env # "no window"
  /\ ~export.reader
  /\ export.calls < MaxAttempts
  /\ LET id == export.calls + 1
         loading == [Started("handleExport") EXCEPT
                       !.running = TRUE,
                       !.toasts = @ \cup {Toast(id, "loading")},
                       !.notices = <<"loading">>]
         d == downloadCSV(export.env, failAt, id)
         called == [loading EXCEPT !.promise = d.promise, !.reader = d.reader,
                                   !.urls = @ \cup d.urls, !.revoke = @ \cup d.revoke]
     IN export' = IF failAt \in HandlerSteps THEN AfterAwait(loading, id, "none")
                  ELSE IF d.promise = "pending" THEN called
                  ELSE AfterAwait(called, id, d.promise)
  /\ last' = [act |-> "handleExport", c |-> "U", calls |-> <<>>, ret |-> <<>>,
              event |-> <<>>, arg |-> <<failAt>>, burst |-> <<>>]
  /\ UNCHANGED <<available, store, phase, storage, state, isInitialized,
                 debounceRef, timers, inbox, burst, sinceReset>>

\* downloadCSV called by itself.
DownloadCSV(failAt) ==
  /\ ~export.reader
  /\ export.calls < MaxAttempts
  /\ LET d == downloadCSV(export.env, failAt, export.calls + 1)
     IN export' = [Started("downloadCSV") EXCEPT
                     !.promise = d.promise, !.reader = d.reader,
                     !.urls = @ \cup d.urls, !.revoke = @ \cup d.revoke]
  /\ last' = [act |-> "downloadCSV", c |-> "U", calls |-> <<>>, ret |-> <<>>,
              event |-> <<>>, arg |-> <<failAt>>, burst |-> <<>>]
  /\ UNCHANGED <<available, store, phase, storage, state, isInitialized,
                 debounceRef, timers, inbox, burst, sinceReset>>

\* reader.onload: build the link and click it, then resolve(true).  When the
\* click throws, the exception leaves the event handler and the promise is
\* never settled.
ReaderLoad(clickOk) ==
  /\ export.reader
  /\ export' = IF ~clickOk THEN [export EXCEPT !.reader = FALSE]
               ELSE IF export.caller = "handleExport"
                 THEN AfterAwait([export EXCEPT !.reader = FALSE], export.calls, "resolved")
               ELSE [export EXCEPT !.reader = FALSE, !.promise = "resolved"]
  /\ last' = [act |-> "reader.onload", c |-> "U", calls |-> <<>>, ret |-> <<>>,
              event |-> <<>>, arg |-> <<clickOk>>, burst |-> <<>>]
  /\ UNCHANGED <<available, store, phase, storage, state, isInitialized,
                 debounceRef, timers, inbox, burst, sinceReset>>

\* reader.onerror: reject(new Error('Failed to read blob')).
ReaderError ==
  /\ export.reader
  /\ export' = IF export.caller = "handleExport"
                 THEN AfterAwait([export EXCEPT !.reader = FALSE], export.calls, "rejected")
               ELSE [export EXCEPT !.reader = FALSE, !.promise = "rejected"]
  /\ last' = [act |-> "reader.onerror", c |-> "U", calls |-> <<>>, ret |-> <<>>,
              event |-> <<>>, arg |-> <<>>, burst |-> <<>>]
  /\ UNCHANGED <<available, store, phase, storage, state, isInitialized,
                 debounceRef, timers, inbox, burst, sinceReset>>

\* The timeout of 100 ms: URL.revokeObjectURL(url).
RevokeObjectURL(url) ==
  /\ url \in export.revoke
  /\ export' = [export EXCEPT !.revoke = @ \ {url}, !.urls = @ \ {url}]
  /\ last' = [act |-> "revokeObjectURL", c |-> "U", calls |-> <<>>, ret |-> <<>>,
              event |-> <<>>, arg |-> <<url>>, burst |-> <<>>]
  /\ UNCHANGED <<available, store, phase, storage, state, isInitialized,
                 debounceRef, timers, inbox, burst, sinceReset>>

\* A success or error notice leaves after its display time.
ToastExpires(t) ==
  /\ t \in export.toasts
  /\ t.kind # "loading"
  /\ export' = [export EXCEPT !.toasts = @ \ {t}]
  /\ last' = [act |-> "toast expires", c |-> "U", calls |-> <<>>, ret |-> <<>>,
              event |-> <<>>, arg |-> <<t>>, burst |-> <<>>]
  /\ UNCHANGED <<available, store, phase, storage, state, isInitialized,
                 debounceRef, timers, inbox, burst, sinceReset>>

InitDownload ==
  /\ InitContainers
  /\ available = TRUE
  /\ store = [k \in Keys |-> Absent]
  /\ export \in {[NoExport EXCEPT !.env = env] : env \in Envs}

NextDownload ==
  \/ \E failAt \in {"none"} \cup HandlerSteps \cup DownloadSteps(export.env) :
       handleExport(failAt)
  \/ \E failAt \in {"none"} \cup DownloadSteps(export.env) : DownloadCSV(failAt)
  \/ \E clickOk \in BOOLEAN : ReaderLoad(clickOk)
  \/ ReaderError
  \/ \E url \in export.revoke : RevokeObjectURL(url)
  \/ \E t \in export.toasts : ToastExpires(t)

SpecDownload == InitDownload /\ [][NextDownload]_vars

\* The revocation timeout fires once it is due.
SpecDownloadFair ==
  SpecDownload /\ WF_vars(\E url \in export.revoke : RevokeObjectURL(url))

-----------------------------------------------------------------------------
(* Claims *)

\* C1 Debounce coalescing: while the timeout of a burst of updates is pending
\* nothing has been written for the burst; the burst ends with the firing of
\* its one timeout, which makes exactly one setItem call, with the
\* serialization of the state the last update of the burst produced, and
\* leaves no timeout behind.  (A burst cut short by clear, resetToDefault or
\* teardown is not a burst left to finish.)
DebounceCoalescing ==
  \A c \in Containers :
    /\ burst[c].open =>
         /\ burst[c].sets = <<>>
         /\ timers[c] # {}
    /\ (last.act = "FireTimer" /\ last.c = c) =>
         /\ last.burst[1].open
         /\ last.burst[1].sets = <<JSONstringify(last.burst[1].upd)>>
         /\ last.calls = <<Call("setItem", key(c), JSONstringify(last.burst[1].upd),
                                last.calls[1].ok)>>
         /\ timers[c] = {}
         /\ ~burst[c].open

\* A burst that dropped an intermediate value has just been written.
DebounceCoalescingWitness ==
  /\ last.act = "FireTimer"
  /\ last.burst[1].dropped
  /\ last.calls[1].ok
  /\ store[key(last.c)] = JSONstringify(last.burst[1].upd)
  /\ last.burst[1].upd # defaultValues

\* C2 Reset clears storage: once a container has been reset, and as long as
\* no container has been updated since, a fresh load of its key yields exactly
\* the default value.
ResetClearsStorage ==
  \A c \in Containers : sinceReset[c].done => FreshLoad(c) = defaultValue(c)

\* The original statement of C7: at most one storage write is pending for a
\* given storage key.
SingleSlotPerKey ==
  \A k \in Keys :
    Cardinality({c \in Containers : key(c) = k /\ timers[c] # {}}) <= 1

\* C7 (amended) Single-slot timer: each container has at most one storage
\* write pending, the timeout debounceRef names; right after an update that
\* arms a write the container's only pending timeout is the new one, carrying
\* the new state.
SingleSlotPerContainer ==
  \A c \in Containers :
    /\ Cardinality(timers[c]) <= 1
    /\ \A t \in timers[c] : t.id = debounceRef[c]
    /\ (last.act = "Update" /\ last.c = c /\ isInitialized[c] /\ storage[c]) =>
         timers[c] = {[id |-> debounceRef[c], value |-> state[c]]}

\* An update has just replaced the pending write of another state.
SingleSlotWitness ==
  \E c \in Containers :
    /\ last.act = "Update" /\ last.c = c
    /\ burst[c].dropped
    /\ Cardinality(timers[c]) = 1

\* C8 Teardown: an unmounted container has no timeout pending, and no
\* timeout callback of an unmounted container runs.
NoWriteAfterTeardown ==
  \A c \in Containers :
    phase[c] = "unmounted" =>
      /\ timers[c] = {}
      /\ ~(last.act = "FireTimer" /\ last.c = c)

\* A container was unmounted while the write of an update was pending.
NoWriteAfterTeardownWitness ==
  /\ last.act = "Unmount"
  /\ last.burst[1].open
  /\ last.burst[1].upd # defaultValues
  /\ phase[last.c] = "unmounted"

\* r has exactly the fields of d, with s's value where s has the field and
\* d's value where it has not.
ShapeMerged(r, d, s) ==
  /\ FieldNames(r) = FieldNames(d)
  /\ \A f \in FieldNames(d) : Get(r, f) = IF Has(s, f) THEN Get(s, f) ELSE Get(d, f)

\* C3 Shape-merge: when the stored text (at the initial load) or the payload
\* of a 'storage' event for the key (at its handling) parses to an object S
\* whose fields are among the default's, the state produced has exactly the
\* default's fields, S's value for each field S has and the default's value
\* for each field S lacks.
ShapeMergeOnLoad ==
  \A c \in Containers :
    /\ (/\ last.act = "Mount" /\ last.c = c /\ storage[c]
        /\ Parses(store[key(c)])
        /\ FieldNames(JSONparse(store[key(c)])) \subseteq FieldNames(defaultValue(c)))
         => ShapeMerged(state[c], defaultValue(c), JSONparse(store[key(c)]))
    /\ (/\ last.act = "handleStorageChange" /\ last.c = c
        /\ last.event[1].key = key(c)
        /\ Parses(last.event[1].newValue)
        /\ FieldNames(JSONparse(last.event[1].newValue)) \subseteq FieldNames(defaultValue(c)))
         => ShapeMerged(state[c], defaultValue(c), JSONparse(last.event[1].newValue))

\* The initial load has just merged a stored object that lacks a field.
ShapeMergeOnLoadWitness ==
  /\ last.act = "Mount"
  /\ store[key(last.c)] = JSONstringify(<< <<"targetDishes", 250>> >>)
  /\ state[last.c] = << <<"localCustomers", 100>>, <<"targetDishes", 250>> >>

\* C4 Cross-tab synchronization: when the debounced write of container w has
\* just changed the entry, every other window holding a document has the
\* notification of it queued; and when the notification is the next thing
\* handled, by the listening container c of the other tab, c's state becomes
\* the shape-merge of its default and the written value and both containers
\* hold the same value.
CrossTabSync ==
  [][\A w, c \in Containers :
       /\ (last'.act = "FireTimer" /\ last'.c = w /\ store' # store /\ c \in Windows(w)) =>
            /\ inbox'[c] # <<>>
            /\ inbox'[c][Len(inbox'[c])] = [key |-> key(w), newValue |-> store'[key(w)]]
       /\ (/\ w # c /\ key(w) = key(c)
           /\ last.act = "FireTimer" /\ last.c = w /\ last.calls[1].ok
           /\ inbox[c] = <<[key |-> key(w), newValue |-> last.calls[1].text]>>
           /\ last'.act = "handleStorageChange" /\ last'.c = c) =>
            /\ ShapeMerged(state'[c], defaultValue(c), JSONparse(last.calls[1].text))
            /\ SameFields(state'[c], state'[w])]_vars

\* C5 Cross-tab reset: when container a has just been reset (resetToDefault
\* or resetAllValues) and the notification of the removal is the next thing
\* handled, by the listening container b of the other tab, b's state becomes
\* its default value.
CrossTabReset ==
  [][\A a, b \in Containers :
       (/\ a # b /\ key(a) = key(b)
        /\ last.act \in {"resetToDefault", "resetAllValues"} /\ last.c = a
        /\ inbox[b] = <<[key |-> key(a), newValue |-> Absent]>>
        /\ last'.act = "handleStorageChange" /\ last'.c = b) =>
         state'[b] = defaultValue(b)]_vars

\* C6 Self-healing after a race: when the pending timeout of a container has
\* just fired (its setItem returning) and a 'storage' event for the key had
\* been applied to the container while that timeout was pending, the entry
\* equals the serialization of the state the container holds.
SelfHealing ==
  \A c \in Containers :
    (/\ last.act = "FireTimer" /\ last.c = c
     /\ last.calls[1].ok
     /\ last.burst[1].notified) =>
      store[key(c)] = JSONstringify(state[c])

\* C9 Initial load never writes back: the first render and the effects of
\* the first commit make no call on the container's key, leave every entry of
\* the storage as it was and arm no timeout.
InitialLoadNeverWritesBack ==
  [][\A c \in Containers :
       (last'.act \in {"Mount", "Effects"} /\ last'.c = c) =>
         /\ store' = store
         /\ timers' = timers
         /\ timers'[c] = {}
         /\ debounceRef'[c] = 0
         /\ inbox' = inbox
         /\ \A i \in 1..Len(last'.calls) : last'.calls[i].key # key(c)]_vars

\* A container has been constructed over an entry that does not parse, or
\* over one that lacks a field of the default, and the entry is still there.
InitialLoadNeverWritesBackWitness ==
  \E c \in Containers :
    /\ last.act = "Effects" /\ last.c = c /\ storage[c]
    /\ \/ store[key(c)] = Garbage /\ state[c] = defaultValue(c)
       \/ /\ store[key(c)] = JSONstringify(<< <<"localCustomers", 250>> >>)
          /\ state[c] = << <<"localCustomers", 250>>, <<"targetDishes", 200>> >>

\* C10 Storage unavailable: when the probe fails, no step changes the storage,
\* queues an event or arms a timeout, and the only storage call made is the
\* failing probe; the first render yields the default value, an update yields
\* the state its argument produces, clear leaves the state and the two resets
\* yield the default value; storageUtils.get returns the default supplied and
\* set, remove and has return false.
StorageUnavailable ==
  [][~available =>
       /\ store' = store /\ inbox' = inbox
       /\ timers' = timers /\ debounceRef' = debounceRef
       /\ \A c \in Containers : timers'[c] = {} /\ debounceRef'[c] = 0 /\ ~storage'[c]
       /\ \A i \in 1..Len(last'.calls) :
            last'.calls[i] = Call("setItem", TEST_KEY, <<"test">>, FALSE)
       /\ \A c \in Containers : last'.c = c =>
            /\ last'.act = "Mount" => state'[c] = defaultValue(c)
            /\ last'.act = "Update" => state'[c] = NextState(last'.arg[1], state[c])
            /\ last'.act = "clear" => state'[c] = state[c]
            /\ last'.act \in {"resetToDefault", "resetAllValues"} =>
                 state'[c] = defaultValue(c)
            /\ last'.act \in {"Update", "clear", "resetToDefault"} => last'.calls = <<>>
       /\ last'.act = "storageUtils.get" => last'.ret = <<defaultValues>>
       /\ last'.act \in {"storageUtils.set", "storageUtils.remove", "storageUtils.has"} =>
            last'.ret = <<FALSE>>]_vars

\* With the storage unavailable and an entry stored before, the container has
\* just been updated away from the default it started with.
StorageUnavailableWitness ==
  \E c \in Containers :
    /\ ~available
    /\ last.act = "Update" /\ last.c = c
    /\ state[c] # defaultValue(c)
    /\ store[key(c)] \notin {Absent, Garbage}
    /\ timers[c] = {}

\* C11 Parse failures are non-fatal: a first render over a stored text that
\* does not parse yields exactly the default value; the handling of a
\* 'storage' event for the key whose payload does not parse leaves the
\* container's state, its timeouts and the storage as they were.
ParseFailuresNonFatal ==
  [][\A c \in Containers :
       /\ (/\ last'.act = "Mount" /\ last'.c = c /\ storage'[c]
           /\ store[key(c)] # Absent /\ ~Parses(store[key(c)])) =>
            state'[c] = defaultValue(c)
       /\ (/\ last'.act = "handleStorageChange" /\ last'.c = c
           /\ last'.event[1].key = key(c)
           /\ last'.event[1].newValue # Absent
           /\ ~Parses(last'.event[1].newValue)) =>
            /\ state' = state
            /\ timers' = timers /\ debounceRef' = debounceRef
            /\ store' = store]_vars

\* A container holding a state of its own, with a write pending, has just
\* handled a 'storage' event whose payload does not parse.
ParseFailuresNonFatalWitness ==
  \E c \in Containers :
    /\ last.act = "handleStorageChange" /\ last.c = c
    /\ last.event[1] = [key |-> key(c), newValue |-> Garbage]
    /\ state[c] # defaultValue(c)
    /\ timers[c] # {}

\* The step just taken was a timeout callback, a clear or a reset of c whose
\* storage call threw.
Failed(c) ==
  /\ last.c = c
  /\ last.act \in {"FireTimer", "clear", "resetToDefault", "resetAllValues"}
  /\ last.calls # <<>>
  /\ ~last.calls[Len(last.calls)].ok

ClearKeepsPendingWrite ==
  [][\A c \in Containers :
       (last'.act = "clear" /\ last'.c = c) =>
         /\ state' = state
         /\ timers' = timers]_vars

\* C13 (amended) The pending write of a container is cancelled without being
\* re-armed by clear(), by resetToDefault() (and resetAllValues, which calls
\* it) and by teardown, and by nothing else: apart from those and from the
\* firing of the timeout itself no step leaves a container that had a write
\* pending without one.  clear() on a container with a storage manager leaves
\* the in-memory state as it was, leaves no write pending, and removes the
\* entry when its removeItem returns.
ClearCancelsPendingWrite ==
  [][\A c \in Containers :
       /\ (timers[c] # {} /\ timers'[c] = {}) =>
            /\ last'.c = c
            /\ last'.act \in {"FireTimer", "clear", "resetToDefault",
                              "resetAllValues", "Unmount"}
       /\ (last'.act = "clear" /\ last'.c = c /\ storage[c]) =>
            /\ state' = state
            /\ timers'[c] = {}
            /\ last'.calls[1].ok => store'[key(c)] = Absent]_vars

\* clear() has just been called while the write of the state the container
\* holds was pending: no write is pending and the entry is gone.
ClearCancelsPendingWriteWitness ==
  \E c \in Containers :
    /\ last.act = "clear" /\ last.c = c
    /\ last.burst[1].open
    /\ last.burst[1].upd = state[c]
    /\ state[c] # defaultValue(c)
    /\ timers[c] = {}
    /\ store[key(c)] = Absent

\* C14 updateValues(updates) and updateValue(key, value) are one functional
\* update: the new state has the fields of the previous state, with the value
\* of `updates` for each field it names and the previous value for every
\* other field; on an initialized container with a storage manager the update
\* leaves exactly one timeout, carrying the new state, however many fields
\* `updates` names, and otherwise it leaves the timeouts as they were.
SetFieldsOneUpdate ==
  [][\A c \in Containers :
       (last'.act = "Update" /\ last'.c = c /\ last'.arg[1].fn) =>
         /\ ShapeMerged(state'[c], state[c], last'.arg[1].updates)
         /\ IF isInitialized[c] /\ storage[c]
              THEN timers'[c] = {[id |-> debounceRef'[c], value |-> state'[c]]}
              ELSE timers'[c] = timers[c]]_vars

\* updateValues has just replaced both fields at once, and one timeout is
\* pending.
SetFieldsOneUpdateWitness ==
  \E c \in Containers :
    /\ last.act = "Update" /\ last.c = c
    /\ last.arg[1].fn /\ Len(last.arg[1].updates) = 2
    /\ Get(state[c], "localCustomers") = 250 /\ Get(state[c], "targetDishes") = 250
    /\ Cardinality(timers[c]) = 1

\* C15 resetAllValues(): when the container has a storage manager and every
\* removeItem of the call returns, right after the call no key that begins
\* with 'calculator' has an entry, every other entry is as it was, the
\* container's state is the default value and it has no write pending.
ResetAllFrame ==
  [][\A c \in Containers :
       (/\ last'.act = "resetAllValues" /\ last'.c = c /\ storage[c]
        /\ \A i \in 1..Len(last'.calls) : last'.calls[i].ok) =>
         /\ \A k \in Keys :
              store'[k] = IF StartsWithPrefix(k) THEN Absent ELSE store[k]
         /\ state'[c] = defaultValue(c)
         /\ timers'[c] = {}]_vars

\* resetAllValues has just removed the entries of both calculator keys,
\* cancelling a pending write, while another application's entry stays.
ResetAllFrameWitness ==
  \E c \in Containers :
    /\ last.act = "resetAllValues" /\ last.c = c
    /\ \A i \in 1..Len(last.calls) : last.calls[i].ok
    /\ \E i \in 1..Len(last.calls) : last.calls[i].key = PREFERENCES_KEY
    /\ \E i \in 1..Len(last.calls) : last.calls[i].key = STORAGE_KEY
    /\ last.burst[1].open
    /\ store[OTHER_KEY] # Absent
    /\ store[PREFERENCES_KEY] = Absent /\ store[STORAGE_KEY] = Absent

\* C16 Reset clears storage completely: once a container has made the full
\* reset (resetAllValues), and as long as no container has been updated
\* since, no key that begins with 'calculator' has an entry.
ResetAllComplete ==
  \A c \in Containers :
    sinceReset[c].all => \A k \in Keys : StartsWithPrefix(k) => store[k] = Absent

\* C17 hasUnsavedChanges() returns false exactly when the state of a live
\* container and the default value have the same fields with equal values,
\* in whatever order the fields appear, and true otherwise.
UnsavedChangesStructural ==
  \A c \in Containers :
    Live(c) => (hasUnsavedChanges(c) <=> ~SameFields(state[c], defaultValue(c)))

\* C18 Selective updates: an update whose resulting state equals the default
\* value schedules no storage write.
SelectiveUpdates ==
  [][\A c \in Containers :
       (last'.act = "Update" /\ last'.c = c /\ state'[c] = defaultValue(c)) =>
         timers'[c] \subseteq timers[c]]_vars

\* The standard CSV rule, reading a text into records of fields: a field that
\* opens with a quote runs to its closing quote, a doubled quote inside it
\* denoting one quote; otherwise a comma ends a field and a line feed a
\* record.
RECURSIVE Scan(_, _, _, _, _)
Scan(s, quoted, field, record, records) ==
  IF s = <<>> THEN Append(records, Append(record, field))
  ELSE IF quoted
    THEN IF Head(s) = QUOTE
           THEN IF Len(s) >= 2 /\ s[2] = QUOTE
                  THEN Scan(Tail(Tail(s)), TRUE, Append(field, QUOTE), record, records)
                  ELSE Scan(Tail(s), FALSE, field, record, records)
           ELSE Scan(Tail(s), TRUE, Append(field, Head(s)), record, records)
    ELSE IF Head(s) = QUOTE /\ field = <<>>
           THEN Scan(Tail(s), TRUE, field, record, records)
    ELSE IF Head(s) = COMMA
           THEN Scan(Tail(s), FALSE, <<>>, Append(record, field), records)
    ELSE IF Head(s) = LF
           THEN Scan(Tail(s), FALSE, <<>>, <<>>, Append(records, Append(record, field)))
    ELSE Scan(Tail(s), FALSE, Append(field, Head(s)), record, records)

ParseCsv(text) == Scan(text, FALSE, <<>>, <<>>, <<>>)

\* C19 CSV escaping round-trip: the output of formatCsvValue for a text reads
\* back, by the standard CSV rule, as one record of one field that is the
\* text; a text without comma, quote, LF and CR is emitted unchanged, and
\* null/undefined is emitted as the empty text.
CsvRoundTrip ==
  last.act = "formatCsvValue" =>
    LET value == last.arg[1]
        out == last.ret[1]
    IN IF value = Null THEN out = <<>>
       ELSE /\ ParseCsv(out) = << <<value>> >>
            /\ (\A i \in 1..Len(value) : value[i] \notin {COMMA, QUOTE, LF, CR}) =>
                 out = value

\* A text holding a quote, a comma and a line feed has been formatted.
CsvRoundTripWitness ==
  /\ last.act = "formatCsvValue"
  /\ last.arg[1] = <<QUOTE, COMMA, LF>>
  /\ last.ret[1] = <<QUOTE, QUOTE, QUOTE, COMMA, LF, QUOTE>>

\* The cells a reader is to find in the line of a row: with headers, one cell
\* per header in header order, empty where the row lacks the field; without
\* headers, the row's values in the row's own order.
ExpectedCells(section, row) ==
  LET Text(v) == IF v = Null THEN <<>> ELSE v
      cells == IF Len(section.headers) > 0
                 THEN [i \in 1..Len(section.headers) |->
                         IF Has(row, section.headers[i])
                           THEN Text(Get(row, section.headers[i]))
                           ELSE <<>>]
                 ELSE [i \in 1..Len(row) |-> Text(row[i][2])]
  IN IF cells = <<>> THEN << <<>> >> ELSE cells

BlankRecord == << <<>> >>

ExpectedBlock(section) ==
  (IF section.title # <<>> THEN <<  <<section.title>>, BlankRecord >> ELSE <<>>)
    \o (IF Len(section.headers) > 0 THEN <<section.headers>> ELSE <<>>)
    \o [i \in 1..Len(section.rows) |-> ExpectedCells(section, section.rows[i])]

RECURSIVE ExpectedRecords(_, _)
ExpectedRecords(sections, sectionIndex) ==
  IF sectionIndex > Len(sections) THEN <<>>
  ELSE ExpectedBlock(sections[sectionIndex])
         \o (IF sectionIndex < Len(sections) THEN <<BlankRecord>> ELSE <<>>)
         \o ExpectedRecords(sections, sectionIndex + 1)

\* C20 Section and row ordering: the output of sectionsToCSV reads back as
\* the blocks of the input sections in input order, one blank line between
\* two sections and none after the last; in a section with headers every row
\* line has exactly one cell per header, in header order, a field the row
\* lacks is an empty cell and a field no header names is not emitted.
SectionAndRowOrdering ==
  last.act = "sectionsToCSV" =>
    LET sections == last.arg[1]
        out == last.ret[1]
        expected == ExpectedRecords(sections, 1)
    IN /\ IF expected = <<>> THEN out = <<>> ELSE ParseCsv(out) = expected
       /\ \A s \in 1..Len(sections) : Len(sections[s].headers) > 0 =>
            \A r \in 1..Len(sections[s].rows) :
              LET line == ParseCsv(RowLine(sections[s], sections[s].rows[r]))[1]
              IN /\ Len(line) = Len(sections[s].headers)
                 /\ \A i \in 1..Len(line) :
                      \/ /\ Has(sections[s].rows[r], sections[s].headers[i])
                         /\ Get(sections[s].rows[r], sections[s].headers[i]) \in {line[i], Null}
                      \/ /\ ~Has(sections[s].rows[r], sections[s].headers[i])
                         /\ line[i] = <<>>

\* Two sections have been written: the first with a row whose fields come in
\* another order than the headers, the second with a row that lacks a header's
\* field and holds a field no header names.
SectionAndRowOrderingWitness ==
  /\ last.act = "sectionsToCSV"
  /\ Len(last.arg[1]) = 2
  /\ last.arg[1][1].headers = << <<"h">>, <<"k">> >>
  /\ last.arg[1][1].rows[1][1][1] = <<"k">>
  /\ last.arg[1][2].headers = << <<"h">>, <<"k">> >>
  /\ Len(last.arg[1][2].rows) = 2
  /\ last.ret[1] = <<"a", LF, LF, "h", COMMA, "k", LF, "a", COMMA, QUOTE, "a", COMMA, "a", QUOTE,
                     LF, LF, "h", COMMA, "k", LF, "a", COMMA, LF, COMMA, QUOTE, QUOTE, QUOTE, QUOTE>>

\* The cell of a row under a header.
Cell(section, r, header) == Get(section.rows[r], header)

AnalysisClassification ==
  last.act = "createAnalysisSummary" =>
    LET target == Get(last.arg[1], "targetDishes")
        gap == last.arg[2].gap
        summary == last.ret[1]
    IN /\ (summary.status = "exceeds target") <=> (gap >= 0)
       /\ (summary.capacityStatus = "sufficient") <=> (gap >= 0)
       /\ (summary.status = "below target") <=> (gap < 0)
       /\ (summary.capacityStatus = "insufficient") <=> (gap < 0)
       /\ (summary.recommendation = "large surplus") <=> (5 * gap > target)
       /\ (summary.recommendation = "moderate surplus")
            <=> (0 <= gap /\ 5 * gap <= target)
       /\ (summary.recommendation = "urgent") <=> (gap < 0 /\ 10 * (0 - gap) > target)
       /\ (summary.recommendation = "moderate shortfall")
            <=> (gap < 0 /\ 10 * (0 - gap) <= target)

\* A gap of exactly zero has been classified, against a positive target.
AnalysisClassificationWitness ==
  /\ last.act = "createAnalysisSummary"
  /\ last.arg[2].gap = 0
  /\ Get(last.arg[1], "targetDishes") = 10
  /\ last.ret[1].status = "exceeds target"
  /\ last.ret[1].recommendation = "moderate surplus"

\* The number a text of decimal digits denotes; -1 when a piece is no digit.
RECURSIVE DigitsValue(_)
DigitsValue(s) ==
  IF s = <<>> THEN 0
  ELSE LET d == s[Len(s)]
           rest == DigitsValue(SubSeq(s, 1, Len(s) - 1))
       IN IF rest < 0 \/ ~\E i \in 1..10 : DigitChars[i] = d THEN 0 - 1
          ELSE 10 * rest + (CHOOSE i \in 0..9 : DigitChars[i + 1] = d)

DownloadNeverRejects == export.promise # "rejected"

\* C25 Transient resources are released regardless of outcome: every object
\* URL created by downloadCSV is eventually revoked, when the download was
\* triggered and when a step after the URL's creation failed.
UrlsEventuallyRevoked ==
  \A url \in 1..MaxAttempts : (url \in export.urls) ~> (url \notin export.urls)

\* C26 Export failure handling: an export attempt that has ended showed exactly
\* one success or failure notice, a failure notice when a step failed, and
\* leaves none of its notices displayed but that one (no loading notice).
ExportFailureHandling ==
  (export.caller = "handleExport" /\ ~export.running) =>
    /\ Len(SelectSeq(export.notices, LAMBDA kind : kind \in {"success", "error"})) = 1
    /\ last.act = "handleExport" /\ last.arg[1] # "none" =>
         export.notices[Len(export.notices)] = "error"
    /\ \A t \in export.toasts :
         t.id = export.calls => t.kind = export.notices[Len(export.notices)]

\* The storage entry of c is the serialization of its state, and a fresh
\* load restores every field of the state.
Persisted(c) ==
  /\ store[key(c)] = JSONstringify(state[c])
  /\ \A f \in FieldNames(state[c]) :
       Has(FreshLoad(c), f) /\ Get(FreshLoad(c), f) = Get(state[c], f)

\* C27 Eventual persistence: for an initialized container with available
\* storage, if after some update no further update, reset, clear, teardown or
\* external notification occurs, the debounce timer eventually fires, and when
\* it has fired the storage entry is the serialization of the in-memory state
\* and a fresh load restores every field as last set.
EventualPersistence ==
  <>[][last'.act # "Update"]_vars =>
    ((burst["A"].open /\ ~burst["A"].notified)
       ~> (/\ ~burst["A"].open
           /\ (last.act = "FireTimer" /\ last.c = "A" /\ ~last.burst[1].notified) =>
                /\ timers["A"] = {}
                /\ Persisted("A")))

\* The timer of a burst of several updates has fired and what it wrote is
\* the state, which is not the default.
EventualPersistenceWitness ==
  /\ last.act = "FireTimer" /\ last.c = "A"
  /\ last.burst[1].dropped /\ ~last.burst[1].notified
  /\ state["A"] # defaultValues
  /\ Persisted("A")

\* C28 (as stated) Startup phase: an update applied before the container is
\* marked initialized replaces the in-memory state at once but arms no timer
\* and causes no storage write; every update applied after initialization
\* arms a write; and the state after any update is the result of applying it
\* to the state before.
StartupPhase ==
  [][\A c \in Containers :
       (last'.act = "Update" /\ last'.c = c) =>
         /\ state'[c] = NextState(last'.arg[1], state[c])
         /\ store' = store
         /\ ~isInitialized[c] =>
              /\ timers'[c] = timers[c]
              /\ debounceRef'[c] = debounceRef[c]
         /\ isInitialized[c] =>
              /\ debounceRef'[c] # 0
              /\ \E t \in timers'[c] :
                   /\ t.id = debounceRef'[c]
                   /\ t.value = state'[c]
                   /\ t \notin timers[c]]_vars

\* C28 (amended) Startup phase: an update applied before the container is
\* marked initialized replaces the in-memory state at once but arms no timer
\* and causes no storage write; an update applied after initialization arms a
\* write when the container has a storage manager and arms none when storage
\* is unavailable; and the state after any update is the result of applying
\* it to the state before.
StartupPhaseWithStorage ==
  [][\A c \in Containers :
       (last'.act = "Update" /\ last'.c = c) =>
         /\ state'[c] = NextState(last'.arg[1], state[c])
         /\ store' = store
         /\ (~isInitialized[c] \/ ~storage[c]) =>
              /\ timers'[c] = timers[c]
              /\ debounceRef'[c] = debounceRef[c]
         /\ (isInitialized[c] /\ storage[c]) =>
              /\ debounceRef'[c] # 0
              /\ \E t \in timers'[c] :
                   /\ t.id = debounceRef'[c]
                   /\ t.value = state'[c]
                   /\ t \notin timers[c]]_vars

\* A container with a storage manager has just been updated away from the
\* default before its first effects ran: nothing is armed.
StartupPhaseWitness ==
  \E c \in Containers :
    /\ last.act = "Update" /\ last.c = c
    /\ phase[c] = "rendered" /\ ~isInitialized[c] /\ storage[c]
    /\ state[c] # defaultValue(c)
    /\ timers[c] = {} /\ debounceRef[c] = 0

=============================================================================
